---- MODULE Spec2Model ----
(***************************************************************************)
(* Row enrichment engine of scripts/process_excel.py: ExcelProcessor       *)
(* (matches_criteria, process_row, get_column_letter, process_excel,       *)
(* save_workbook) and OpenAIClient.create_completion.                      *)
(*                                                                         *)
(* Python values are tagged records.  A string is a sequence of tokens; a  *)
(* token is either the whitespace character " " or a run of non-blank      *)
(* characters, so that str.strip() is computed and not assumed.            *)
(***************************************************************************)
EXTENDS Integers, Sequences, FiniteSets, TLC

\* ------------------------------------------------------------ bounds

\* Number of data rows of the sheet (rows 2 .. NumRows + 1).
NumRows == 2

\* Longest list of filter criteria drawn when matches_criteria is checked alone.
MaxCriteria == 2

\* ----------------------------------------------------- Python values

PyNone == [t |-> "None"]
PyStr(s) == [t |-> "str", s |-> s]
PyInt(n) == [t |-> "int", n |-> n]
PyDict(d) == [t |-> "dict", d |-> d]
PyList(l) == [t |-> "list", l |-> l]

\* A string of one non-blank token, e.g. a column name.
Word(w) == PyStr(<<w>>)

RECURSIVE lstrip(_)
lstrip(s) == IF s # <<>> /\ Head(s) = " " THEN lstrip(Tail(s)) ELSE s

RECURSIVE rstrip(_)
rstrip(s) == IF s # <<>> /\ s[Len(s)] = " " THEN rstrip(SubSeq(s, 1, Len(s) - 1)) ELSE s

\* str.strip()
strip(s) == rstrip(lstrip(s))

Digits == <<"0", "1", "2", "3", "4", "5", "6", "7", "8", "9">>

\* str(value): the text Python prints for the value.
ToStr(v) ==
    CASE v.t = "str" -> v.s
      [] v.t = "None" -> <<"None">>
      [] v.t = "int" -> IF v.n \in 0..9 THEN <<Digits[v.n + 1]>> ELSE <<"int">>
      [] v.t = "dict" -> <<"{", "}">>
      [] v.t = "list" -> <<"[", "]">>

\* bool(value)
Truthy(v) ==
    CASE v.t = "str" -> v.s # <<>>
      [] v.t = "None" -> FALSE
      [] v.t = "int" -> v.n # 0
      [] v.t = "dict" -> v.d # <<>>
      [] v.t = "list" -> v.l # <<>>

\* pd.isna(value) for a scalar cell value: an empty cell reads as None.
isna(v) == v.t = "None"

\* dict.get(key, default) on an insertion-ordered dict.
DictHas(d, key) == \E i \in 1..Len(d) : d[i][1] = key
DictGet(d, key, default) ==
    IF DictHas(d, key)
    THEN d[CHOOSE i \in 1..Len(d) : d[i][1] = key][2]
    ELSE default

\* ------------------------------------------------------------ the sheet

\* Header of the workbook: row 1 of the sheet.
ColumnNames == <<"Task", "Difficulty", "Risk">>
NumCols == Len(ColumnNames)
max_row == NumRows + 1
DataRows == 2..max_row

\* ------------------------------------------------------- configuration

NoSchema == PyNone
Schema(name, properties) == [t |-> "schema", name |-> name, properties |-> properties]
SchemaDifficulty == Schema("classify_difficulty", <<"difficulty">>)
SchemaRisk == Schema("classify_risk", <<"risk_level", "other_prop">>)
SchemaNoProperties == Schema("auto_generated_function", <<>>)

OutputConfig(name, fetch_all, schema, input_columns) ==
    [name |-> name, prompt |-> "prompt", fetch_all |-> fetch_all,
     schema |-> schema, input_columns |-> input_columns]

\* config['columns']['output']: an insertion-ordered mapping, keys distinct.
\* "Ghost" is an output column that is no header of the sheet, "Missing" an
\* input column that is no header of the sheet.
OutputColumnConfigs ==
    { <<OutputConfig("Difficulty", FALSE, SchemaDifficulty, <<"Task">>)>>,
      <<OutputConfig("Difficulty", FALSE, SchemaDifficulty, <<"Task">>),
        OutputConfig("Risk", FALSE, SchemaRisk, <<"Task", "Difficulty">>)>>,
      <<OutputConfig("Difficulty", TRUE, NoSchema, <<>>),
        OutputConfig("Risk", FALSE, NoSchema, <<"Task">>)>>,
      <<OutputConfig("Ghost", FALSE, SchemaDifficulty, <<"Task">>),
        OutputConfig("Risk", FALSE, NoSchema, <<"Task">>)>>,
      <<OutputConfig("Difficulty", FALSE, NoSchema, <<"Task">>),
        OutputConfig("Ghost", TRUE, SchemaDifficulty, <<>>)>>,
      <<OutputConfig("Difficulty", FALSE, NoSchema, <<>>),
        OutputConfig("Risk", FALSE, SchemaDifficulty, <<"Missing">>)>>,
      <<OutputConfig("Risk", FALSE, SchemaNoProperties, <<"Task">>)>>,
      <<OutputConfig("Risk", TRUE, SchemaRisk, <<"Task">>)>> }

\* config['processing'].get('retry_attempts', 3)
retry_attempts == 3

\* ------------------------------------------------------ matches_criteria

\* row_data = pd.Series(row, index=[cell.value for cell in self.sheet[1]])
Series(values, index) == [index |-> index, values |-> values]

\* `column in row_data`: membership in the index of the Series
InSeries(rd, column) == \E i \in 1..Len(rd.index) : rd.index[i] = Word(column)

\* row_data[column] for a column of the index (the first label that matches)
SeriesAt(rd, column) ==
    LET hits == {i \in 1..Len(rd.index) : rd.index[i] = Word(column)}
    IN rd.values[CHOOSE i \in hits : \A j \in hits : i <= j]

\* row_data.get(column, None)
SeriesGet(rd, column) == IF InSeries(rd, column) THEN SeriesAt(rd, column) ELSE PyNone

\* b in a, for two strings: b is a contiguous part of a
IsSubstring(b, a) ==
    \E i \in 1..(Len(a) + 1) :
        /\ i + Len(b) - 1 <= Len(a)
        /\ \A k \in 1..Len(b) : a[i + k - 1] = b[k]

\* Code-point order of the tokens that occur in cells and criteria.
TokenOrder == <<" ", "High", "Low", "hard", "low", "old", "run", "walk", "x">>
TokenRank(tok) ==
    IF \E i \in 1..Len(TokenOrder) : TokenOrder[i] = tok
    THEN CHOOSE i \in 1..Len(TokenOrder) : TokenOrder[i] = tok
    ELSE Len(TokenOrder) + 1

\* a < b for two strings, token by token
RECURSIVE SeqLess(_, _)
SeqLess(a, b) ==
    IF b = <<>> THEN FALSE
    ELSE IF a = <<>> THEN TRUE
    ELSE IF TokenRank(Head(a)) # TokenRank(Head(b))
         THEN TokenRank(Head(a)) < TokenRank(Head(b))
         ELSE SeqLess(Tail(a), Tail(b))

\* operator.lt(a, b): "True", "False", or "raise" (TypeError) for operands
\* Python cannot order.
PyLess(a, b) ==
    IF a.t = "int" /\ b.t = "int" THEN (IF a.n < b.n THEN "True" ELSE "False")
    ELSE IF a.t = "str" /\ b.t = "str" THEN (IF SeqLess(a.s, b.s) THEN "True" ELSE "False")
    ELSE "raise"

SupportedOperations == {"equals", "contains", "in", "greater_than", "less_than"}

\* The ops table: op_func(a, b), as "True", "False" or "raise".
ApplyOp(operation, a, b) ==
    CASE operation = "equals" -> IF a = b THEN "True" ELSE "False"
      [] operation = "contains" ->
            IF a.t = "str"
            THEN (IF b.t = "str"
                  THEN (IF IsSubstring(b.s, a.s) THEN "True" ELSE "False")
                  ELSE "raise")
            ELSE "False"
      [] operation = "in" ->
            IF Truthy(a)
            THEN (IF b.t = "list"
                  THEN (IF \E i \in 1..Len(b.l) : b.l[i] = a THEN "True" ELSE "False")
                  ELSE "raise")
            ELSE "False"
      [] operation = "greater_than" -> PyLess(b, a)
      [] operation = "less_than" -> PyLess(a, b)

Criterion(column, operation, value) ==
    [column |-> column, operation |-> operation, value |-> value]

\* The part of one turn of the loop that follows the lookup of the cell, for
\* a column that is a label of the row.  An exception of the operator is
\* caught and the row rejected.
CriterionOnCell(rd, criterion) ==
    LET cell_value == SeriesAt(rd, criterion.column)
    IN IF criterion.operation \notin SupportedOperations THEN FALSE
       ELSE IF criterion.operation = "in"
            THEN IF criterion.value.t # "list" THEN FALSE
                 ELSE ApplyOp("in", cell_value, criterion.value) = "True"
            ELSE IF isna(cell_value) THEN FALSE
                 ELSE ApplyOp(criterion.operation, cell_value, criterion.value) = "True"

\* Variant: a criterion on a column that is no label of the row lets the row pass.
CriterionPassesFailOpen(rd, criterion) ==
    IF ~InSeries(rd, criterion.column) THEN TRUE
    ELSE CriterionOnCell(rd, criterion)

\* One turn of the loop over the criteria: TRUE when the loop goes on to the
\* next criterion, FALSE when it returns False.
CriterionPasses(rd, criterion) ==
    IF ~InSeries(rd, criterion.column) THEN FALSE
    ELSE CriterionOnCell(rd, criterion)

\* Variant: the loop returns after its first turn, with that turn's verdict.
CriteriaLoopFirstOnly(rd, criteria, i) ==
    IF i > Len(criteria) THEN TRUE
    ELSE CriterionPasses(rd, criteria[i])

RECURSIVE CriteriaLoop(_, _, _)
CriteriaLoop(rd, criteria, i) ==
    IF i > Len(criteria) THEN TRUE
    ELSE IF ~CriterionPasses(rd, criteria[i]) THEN FALSE
    ELSE CriteriaLoop(rd, criteria, i + 1)

matches_criteria(enabled, criteria, rd) ==
    IF ~enabled \/ criteria = <<>> THEN TRUE
    ELSE CriteriaLoop(rd, criteria, 1)

\* ---------------------------------------------------- create_completion

\* What openai.chat.completions.create can do with a request: raise, answer
\* with message.content (None or text), or answer with a function call whose
\* arguments are a JSON object.  The service is opaque: every answer is
\* possible for every request.
ApiError == [kind |-> "error"]
Content(content) == [kind |-> "content", content |-> content]
FunctionCall(arguments) == [kind |-> "function_call", arguments |-> arguments]

Request(prompt_text, functions) == [prompt |-> prompt_text, functions |-> functions]

GatewayResponses(request) ==
    { ApiError,
      Content(PyNone),
      Content(PyStr(<<" ">>)),
      Content(PyStr(<<" ", "hard", " ">>)),
      FunctionCall(<<>>),
      FunctionCall(<< <<"difficulty", Word("hard")>> >>),
      FunctionCall(<< <<"difficulty", PyStr(<<>>)>> >>),
      FunctionCall(<< <<"risk_level", Word("N/A")>>, <<"other_prop", Word("x")>> >>),
      FunctionCall(<< <<"other_prop", Word("x")>>, <<"risk_level", Word("low")>> >>),
      FunctionCall(<< <<"other_prop", Word("x")>> >>) }

\* The value create_completion returns for a response of the service.
create_completion(response) ==
    CASE response.kind = "error" -> PyNone
      [] response.kind = "function_call" -> PyDict(response.arguments)
      [] response.kind = "content" ->
            IF Truthy(response.content)
            THEN PyStr(strip(response.content.s))
            ELSE PyStr(<<>>)

\* ------------------------------------------------------------ process_row

\* Variant: only whitespace is stripped off the test; a populated cell is
\* fetched again and an empty one is not.
ShouldFetchInverted(fetch_all, current_value) ==
    fetch_all \/ ~(isna(current_value) \/ strip(ToStr(current_value)) = <<>>)

\* Variant: every field is fetched, whatever its cell holds.
ShouldFetchAlways(fetch_all, current_value) == TRUE

\* should_fetch = fetch_all or (pd.isna(current_value) or str(current_value).strip() == '')
ShouldFetch(fetch_all, current_value) ==
    fetch_all \/ (isna(current_value) \/ strip(ToStr(current_value)) = <<>>)

\* prompt = prompt_template + "\n<input_col>: <value>" for each input column
BuildPrompt(output_config, rd) ==
    <<output_config.prompt>> \o
    [i \in 1..Len(output_config.input_columns) |->
        <<output_config.input_columns[i],
          ToStr(SeriesAt(rd, output_config.input_columns[i]))>>]

\* functions = [{"name": ..., "parameters": ...}] when a schema is configured
BuildFunctions(schema) ==
    IF schema = NoSchema THEN PyNone
    ELSE [t |-> "functions", name |-> schema.name, parameters |-> schema.properties]

\* Variant: the first property of the returned object is taken, not the
\* first property the schema declares.
ExtractValueFirstReturned(result_, schema) ==
    IF result_.t = "dict"
    THEN IF schema # NoSchema
         THEN IF schema.properties # <<>>
              THEN result_.d[1][2]
              ELSE result_
         ELSE result_
    ELSE result_

\* The value taken from a non-empty result.
ExtractValue(result_, schema) ==
    IF result_.t = "dict"
    THEN IF schema # NoSchema
         THEN IF schema.properties # <<>>
              THEN DictGet(result_.d, Head(schema.properties), Word("N/A"))
              ELSE result_
         ELSE result_
    ELSE result_

\* get_column_letter: the column of the first header cell equal to the name;
\* 0 stands for the ValueError raised when there is none.
get_column_letter(sh, column_name) ==
    LET hits == {c \in 1..Len(sh[1]) : sh[1][c] = Word(column_name)}
    IN IF hits = {} THEN 0 ELSE CHOOSE c \in hits : \A d \in hits : c <= d

\* Variant: the cell of the row above is assigned.
WriteCellRowAbove(sh, row, column, value) == [sh EXCEPT ![row - 1][column] = value]

\* self.sheet[f"{column_letter}{row_number}"].value = value
WriteCell(sh, row, column, value) == [sh EXCEPT ![row][column] = value]

\* Values a cell accepts on assignment; the assignment raises for the others
\* (a dict or a list) and leaves the value of the cell as it was.
CellAccepts(value) == value.t \in {"str", "int", "None"}

Unbound == <<>>

\* ------------------------------------------------------------------ state

VARIABLES
    sheet,            \* self.sheet: sheet[r][c], row 1 is the header
    output_columns,   \* self.output_columns
    filter_enabled,   \* self.filter_enabled
    filter_criteria,  \* self.filter_criteria
    pc,               \* position of the single thread of control
    idx,              \* process_excel: row number of the loop
    row_data,         \* the row as read at the top of the loop
    match_result,     \* what matches_criteria returned for row_data
    fld,              \* process_row: position in output_columns
    attempt,          \* process_row: attempt number of the retry loop
    prompt,           \* process_row: the prompt built for the field
    cell_reference,   \* process_row: the local cell_reference, or Unbound
    raised,           \* the exception propagating out of process_excel
    calls,            \* gateway calls made so far for the current field
    delayed,          \* a retry_delay sleep happened since the last call
    outcome,          \* how the current field's retry loop ended
    called,           \* <<row, field>> pairs the gateway was called for
    written,          \* <<row, column, value>> cell assignments made
    slept,            \* a retry or pacing sleep happened in the run
    exhausted_seen,   \* some field ran out of attempts in the run
    saves,            \* number of workbook.save attempts
    saved_sheet,      \* the sheet as handed to workbook.save
    field_sheet,      \* the sheet when the current field was begun
    result,           \* process_row: result of the last gateway call of the field
    last_call,        \* <<row, position in output_columns>> of the last gateway call
    paces,            \* number of pacing sleeps made in the run
    sheet_init        \* the sheet as loaded

vars == <<sheet, output_columns, filter_enabled, filter_criteria, pc, idx,
          row_data, match_result, fld, attempt, prompt, cell_reference,
          raised, calls, delayed, outcome, called, written, slept,
          exhausted_seen, saves, saved_sheet, field_sheet, sheet_init,
          result, last_call, paces>>

config_vars == <<output_columns, filter_enabled, filter_criteria, sheet_init>>

\* ------------------------------------------------------------------- Init

HeaderRow == [c \in 1..NumCols |-> Word(ColumnNames[c])]

\* Data rows as loaded: Task, Difficulty, Risk.
RowTemplates ==
    { <<Word("walk"), PyNone, PyNone>>,
      <<Word("walk"), Word("old"), PyStr(<<" ">>)>>,
      <<Word("run"), PyNone, PyInt(0)>> }

Sheets ==
    { [r \in 1..max_row |-> IF r = 1 THEN HeaderRow ELSE rows[r]] :
        rows \in [DataRows -> RowTemplates] }

\* config['filter']: (enabled, criteria)
FilterConfigs ==
    { <<FALSE, <<>>>>,
      <<TRUE, <<Criterion("Task", "equals", Word("walk"))>>>>,
      <<TRUE, <<Criterion("Priority", "equals", Word("High"))>>>> }

NoRow == Series(<<>>, <<>>)

Init ==
    /\ sheet \in Sheets
    /\ sheet_init = sheet
    /\ output_columns \in OutputColumnConfigs
    /\ \E f \in FilterConfigs : filter_enabled = f[1] /\ filter_criteria = f[2]
    /\ pc = "row"
    /\ idx = 2
    /\ row_data = NoRow
    /\ match_result = TRUE
    /\ fld = 0
    /\ attempt = 0
    /\ prompt = <<>>
    /\ cell_reference = Unbound
    /\ raised = "none"
    /\ calls = 0
    /\ delayed = FALSE
    /\ outcome = "none"
    /\ called = {}
    /\ written = {}
    /\ slept = FALSE
    /\ exhausted_seen = FALSE
    /\ saves = 0
    /\ saved_sheet = <<>>
    /\ field_sheet = <<>>
    /\ result = PyNone
    /\ last_call = <<0, 0>>
    /\ paces = 0

\* ---------------------------------------------------------- process_excel

\* The row the loop reads: values of row idx under the header's labels.
ReadRow == Series(sheet[idx], sheet[1])

\* Variant: process_row is entered without asking the filter.
EnterRowIgnoringFilter ==
    /\ pc = "row"
    /\ UNCHANGED <<result, last_call, paces>>
    /\ idx <= max_row
    /\ row_data' = ReadRow
    /\ match_result' = TRUE
    /\ fld' = 1
    /\ cell_reference' = Unbound
    /\ pc' = "field"
    /\ UNCHANGED <<sheet, config_vars, idx, attempt, prompt, raised, calls,
                   delayed, outcome, called, written, slept, exhausted_seen,
                   saves, saved_sheet, field_sheet>>

\* for idx, row in enumerate(iter_rows(min_row=2)): the row matches the
\* filter and process_row is entered.
EnterRow ==
    /\ pc = "row"
    /\ UNCHANGED <<result, last_call, paces>>
    /\ idx <= max_row
    /\ matches_criteria(filter_enabled, filter_criteria, ReadRow)
    /\ row_data' = ReadRow
    /\ match_result' = TRUE
    /\ fld' = 1
    /\ cell_reference' = Unbound
    /\ pc' = "field"
    /\ UNCHANGED <<sheet, config_vars, idx, attempt, prompt, raised, calls,
                   delayed, outcome, called, written, slept, exhausted_seen,
                   saves, saved_sheet, field_sheet>>

\* The row does not match the filter: the loop goes on to the next row.
SkipRow ==
    /\ pc = "row"
    /\ UNCHANGED <<result, last_call, paces>>
    /\ idx <= max_row
    /\ ~matches_criteria(filter_enabled, filter_criteria, ReadRow)
    /\ row_data' = ReadRow
    /\ match_result' = FALSE
    /\ idx' = idx + 1
    /\ UNCHANGED <<sheet, config_vars, pc, fld, attempt, prompt,
                   cell_reference, raised, calls, delayed, outcome, called,
                   written, slept, exhausted_seen, saves, saved_sheet,
                   field_sheet>>

\* The loop over the rows is exhausted: control reaches the finally block.
RowsDone ==
    /\ pc = "row"
    /\ UNCHANGED <<result, last_call, paces>>
    /\ idx > max_row
    /\ pc' = "save"
    /\ UNCHANGED <<sheet, config_vars, idx, row_data, match_result, fld,
                   attempt, prompt, cell_reference, raised, calls, delayed,
                   outcome, called, written, slept, exhausted_seen, saves,
                   saved_sheet, field_sheet>>

\* ------------------------------------------------------------ process_row

CurrentField == output_columns[fld]

\* The loop over output_columns is exhausted: process_row returns.
ReturnFromRow ==
    /\ pc = "field"
    /\ UNCHANGED <<result, last_call, paces>>
    /\ fld > Len(output_columns)
    /\ idx' = idx + 1
    /\ pc' = "row"
    /\ UNCHANGED <<sheet, config_vars, row_data, match_result, fld, attempt,
                   prompt, cell_reference, raised, calls, delayed, outcome,
                   called, written, slept, exhausted_seen, saves, saved_sheet,
                   field_sheet>>

\* Variant: the pacing sleep is taken for a skipped field as well.
SkipFieldPaced ==
    /\ pc = "field"
    /\ UNCHANGED <<result, last_call>>
    /\ paces' = paces + 1
    /\ fld <= Len(output_columns)
    /\ ~ShouldFetch(CurrentField.fetch_all, SeriesGet(row_data, CurrentField.name))
    /\ fld' = fld + 1
    /\ UNCHANGED <<sheet, config_vars, pc, idx, row_data, match_result,
                   attempt, prompt, cell_reference, raised, calls, delayed,
                   outcome, called, written, slept, exhausted_seen, saves,
                   saved_sheet, field_sheet>>

\* The cell is populated and fetch_all is false: continue with the next field.
SkipField ==
    /\ pc = "field"
    /\ UNCHANGED <<result, last_call, paces>>
    /\ fld <= Len(output_columns)
    /\ ~ShouldFetch(CurrentField.fetch_all, SeriesGet(row_data, CurrentField.name))
    /\ fld' = fld + 1
    /\ UNCHANGED <<sheet, config_vars, pc, idx, row_data, match_result,
                   attempt, prompt, cell_reference, raised, calls, delayed,
                   outcome, called, written, slept, exhausted_seen, saves,
                   saved_sheet, field_sheet>>

\* Variant: the workbook is saved only when the loop ends without exception.
PromptKeyErrorNoSave ==
    /\ pc = "field"
    /\ UNCHANGED <<result, last_call, paces>>
    /\ fld <= Len(output_columns)
    /\ output_columns[fld].fetch_all
          \/ isna(SeriesGet(row_data, output_columns[fld].name))
          \/ strip(ToStr(SeriesGet(row_data, output_columns[fld].name))) = <<>>
    /\ \E i \in 1..Len(output_columns[fld].input_columns) :
           ~InSeries(row_data, output_columns[fld].input_columns[i])
    /\ raised' = "KeyError"
    /\ pc' = "done"
    /\ UNCHANGED <<sheet, config_vars, idx, row_data, match_result, fld,
                   attempt, prompt, cell_reference, calls, delayed, outcome,
                   called, written, slept, exhausted_seen, saves, saved_sheet,
                   field_sheet>>

\* row_data[input_col] raises KeyError for an input column that is no label
\* of the row: the exception leaves process_row and the loop of
\* process_excel, which logs it, re-raises it and runs the finally block.
PromptKeyError ==
    /\ pc = "field"
    /\ UNCHANGED <<result, last_call, paces>>
    /\ fld <= Len(output_columns)
    /\ ShouldFetch(CurrentField.fetch_all, SeriesGet(row_data, CurrentField.name))
    /\ \E i \in 1..Len(CurrentField.input_columns) :
           ~InSeries(row_data, CurrentField.input_columns[i])
    /\ raised' = "KeyError"
    /\ pc' = "save"
    /\ UNCHANGED <<sheet, config_vars, idx, row_data, match_result, fld,
                   attempt, prompt, cell_reference, calls, delayed, outcome,
                   called, written, slept, exhausted_seen, saves, saved_sheet,
                   field_sheet>>

\* The prompt is built and the retry loop is entered.
BeginField ==
    /\ pc = "field"
    /\ result' = PyNone
    /\ UNCHANGED <<last_call, paces>>
    /\ fld <= Len(output_columns)
    /\ ShouldFetch(CurrentField.fetch_all, SeriesGet(row_data, CurrentField.name))
    /\ \A i \in 1..Len(CurrentField.input_columns) :
           InSeries(row_data, CurrentField.input_columns[i])
    /\ prompt' = BuildPrompt(CurrentField, row_data)
    /\ attempt' = 1
    /\ calls' = 0
    /\ delayed' = FALSE
    /\ outcome' = "none"
    /\ field_sheet' = sheet
    /\ pc' = "attempt"
    /\ UNCHANGED <<sheet, config_vars, idx, row_data, match_result, fld,
                   cell_reference, raised, called, written, slept,
                   exhausted_seen, saves, saved_sheet>>

\* Variant: the loop runs one turn too many.
NextAttemptOneMore ==
    IF attempt <= retry_attempts
    THEN attempt' = attempt + 1 /\ pc' = "attempt"
    ELSE attempt' = attempt /\ pc' = "exhausted"

\* Where the retry loop goes after a failed attempt: the next attempt, or the
\* else clause of the for loop when the attempts are used up.
NextAttempt ==
    IF attempt < retry_attempts
    THEN attempt' = attempt + 1 /\ pc' = "attempt"
    ELSE attempt' = attempt /\ pc' = "exhausted"

\* One turn of the retry loop: the gateway call and what is done with its
\* result, up to the break, the next turn or the sleep of the except clause.
Attempt(response) ==
    LET returned == create_completion(response)
        value == ExtractValue(returned, CurrentField.schema)
        column == get_column_letter(sheet, CurrentField.name)
    IN
    /\ pc = "attempt"
    /\ result' = returned
    /\ last_call' = <<idx, fld>>
    /\ UNCHANGED paces
    /\ calls' = calls + 1
    /\ called' = called \cup {<<idx, CurrentField.name>>}
    /\ delayed' = FALSE
    /\ IF ~Truthy(returned)
       THEN \* empty or invalid result: warning, next turn of the loop
            /\ NextAttempt
            /\ UNCHANGED <<sheet, cell_reference, outcome, written>>
       ELSE IF column = 0
       THEN \* get_column_letter raised ValueError
            IF cell_reference = Unbound
            THEN \* the handler's log line reads cell_reference: NameError,
                 \* caught by the outer except clause
                 /\ pc' = "retry_sleep"
                 /\ UNCHANGED <<sheet, cell_reference, outcome, written, attempt>>
            ELSE /\ outcome' = "write_failed"
                 /\ pc' = "pace"
                 /\ UNCHANGED <<sheet, cell_reference, written, attempt>>
       ELSE /\ cell_reference' = <<column, idx>>
            /\ IF CellAccepts(value)
               THEN /\ sheet' = WriteCell(sheet, idx, column, value)
                    /\ written' = written \cup {<<idx, column, value>>}
                    /\ outcome' = "written"
               ELSE /\ outcome' = "write_failed"
                    /\ UNCHANGED <<sheet, written>>
            /\ pc' = "pace"
            /\ UNCHANGED attempt
    /\ UNCHANGED <<config_vars, idx, row_data, match_result, fld, prompt,
                   raised, slept, exhausted_seen, saves, saved_sheet,
                   field_sheet>>

CallGateway ==
    /\ pc = "attempt"
    /\ \E response \in GatewayResponses(Request(prompt, BuildFunctions(CurrentField.schema))) :
           Attempt(response)

\* except Exception: warning, time.sleep(self.retry_delay), next turn
RetrySleep ==
    /\ pc = "retry_sleep"
    /\ UNCHANGED <<result, last_call, paces>>
    /\ delayed' = TRUE
    /\ slept' = TRUE
    /\ NextAttempt
    /\ UNCHANGED <<sheet, config_vars, idx, row_data, match_result, fld,
                   prompt, cell_reference, raised, calls, outcome, called,
                   written, exhausted_seen, saves, saved_sheet, field_sheet>>

\* Variant: a sentinel is written to the cell when the attempts are used up.
ExhaustedWritesSentinel ==
    /\ pc = "exhausted"
    /\ UNCHANGED <<result, last_call, paces>>
    /\ outcome' = "exhausted"
    /\ exhausted_seen' = TRUE
    /\ pc' = "pace"
    /\ sheet' = IF get_column_letter(sheet, CurrentField.name) = 0 THEN sheet
                ELSE WriteCell(sheet, idx, get_column_letter(sheet, CurrentField.name),
                               Word("N/A"))
    /\ UNCHANGED <<config_vars, idx, row_data, match_result, fld,
                   attempt, prompt, cell_reference, raised, calls, delayed,
                   called, written, slept, saves, saved_sheet, field_sheet>>

\* else clause of the for loop: "All retry attempts failed"
Exhausted ==
    /\ pc = "exhausted"
    /\ UNCHANGED <<result, last_call, paces>>
    /\ outcome' = "exhausted"
    /\ exhausted_seen' = TRUE
    /\ pc' = "pace"
    /\ UNCHANGED <<sheet, config_vars, idx, row_data, match_result, fld,
                   attempt, prompt, cell_reference, raised, calls, delayed,
                   called, written, slept, saves, saved_sheet, field_sheet>>

\* Variant: after the pacing sleep the same field is taken up again.
PaceSameField ==
    /\ pc = "pace"
    /\ paces' = paces + 1
    /\ result' = PyNone
    /\ UNCHANGED last_call
    /\ slept' = TRUE
    /\ fld' = fld
    /\ pc' = "field"
    /\ UNCHANGED <<sheet, config_vars, idx, row_data, match_result, attempt,
                   prompt, cell_reference, raised, calls, delayed, outcome,
                   called, written, exhausted_seen, saves, saved_sheet,
                   field_sheet>>

\* time.sleep(self.sleep_time), then the next field
Pace ==
    /\ pc = "pace"
    /\ paces' = paces + 1
    /\ result' = PyNone
    /\ UNCHANGED last_call
    /\ slept' = TRUE
    /\ fld' = fld + 1
    /\ pc' = "field"
    /\ UNCHANGED <<sheet, config_vars, idx, row_data, match_result, attempt,
                   prompt, cell_reference, raised, calls, delayed, outcome,
                   called, written, exhausted_seen, saves, saved_sheet,
                   field_sheet>>

\* ---------------------------------------------------------- save_workbook

\* finally: self.save_workbook().  workbook.save may raise; the error is
\* logged and raised again.
SaveWorkbook(ok) ==
    /\ pc = "save"
    /\ UNCHANGED <<result, last_call, paces>>
    /\ saves' = saves + 1
    /\ saved_sheet' = sheet
    /\ raised' = IF ok THEN raised ELSE "SaveError"
    /\ pc' = "done"
    /\ UNCHANGED <<sheet, config_vars, idx, row_data, match_result, fld,
                   attempt, prompt, cell_reference, calls, delayed, outcome,
                   called, written, slept, exhausted_seen, field_sheet>>

Save == \E ok \in BOOLEAN : SaveWorkbook(ok)

Next ==
    \/ EnterRow
    \/ SkipRow
    \/ RowsDone
    \/ ReturnFromRow
    \/ SkipField
    \/ PromptKeyError
    \/ BeginField
    \/ CallGateway
    \/ RetrySleep
    \/ Exhausted
    \/ Pace
    \/ Save

Spec == Init /\ [][Next]_vars

\* ------------------------------------------- matches_criteria on its own

\* Rows and criteria matches_criteria is applied to: labels Risk and Count,
\* cells empty, blank, text and numbers; every operation of the table and one
\* that is not in it; "Priority" is no label of the row.
FilterRows ==
    { Series(<<risk, count>>, <<Word("Risk"), Word("Count")>>) :
        risk \in {PyNone, PyStr(<<>>), Word("High"), Word("Low")},
        count \in {PyNone, PyInt(0), PyInt(5)} }

ListValue == PyList(<<Word("High"), PyInt(0), PyStr(<<>>)>>)

FilterCriteria ==
    { Criterion(c, op, v) :
        c \in {"Risk", "Priority"},
        op \in {"equals", "contains", "in", "regex"},
        v \in {Word("High"), ListValue} }
    \cup
    { Criterion("Count", op, v) :
        op \in {"equals", "greater_than", "less_than", "in"},
        v \in {PyInt(3), ListValue} }
    \cup
    { Criterion("Risk", "greater_than", PyInt(3)),
      Criterion("Risk", "less_than", Word("Low")) }

CriteriaLists ==
    UNION { [1..n -> FilterCriteria] : n \in 0..MaxCriteria }

FilterInit ==
    /\ row_data \in FilterRows
    /\ filter_enabled \in BOOLEAN
    /\ filter_criteria \in CriteriaLists
    /\ pc = "filter"
    /\ match_result = TRUE
    /\ sheet = <<>>
    /\ sheet_init = <<>>
    /\ output_columns = <<>>
    /\ idx = 0
    /\ fld = 0
    /\ attempt = 0
    /\ prompt = <<>>
    /\ cell_reference = Unbound
    /\ raised = "none"
    /\ calls = 0
    /\ delayed = FALSE
    /\ outcome = "none"
    /\ called = {}
    /\ written = {}
    /\ slept = FALSE
    /\ exhausted_seen = FALSE
    /\ saves = 0
    /\ saved_sheet = <<>>
    /\ field_sheet = <<>>
    /\ result = PyNone
    /\ last_call = <<0, 0>>
    /\ paces = 0

\* self.matches_criteria(row_data)
EvalFilter ==
    /\ pc = "filter"
    /\ UNCHANGED <<result, last_call, paces>>
    /\ match_result' = matches_criteria(filter_enabled, filter_criteria, row_data)
    /\ pc' = "filter_done"
    /\ UNCHANGED <<sheet, config_vars, idx, row_data, fld, attempt, prompt,
                   cell_reference, raised, calls, delayed, outcome, called,
                   written, slept, exhausted_seen, saves, saved_sheet,
                   field_sheet>>

FilterNext == EvalFilter

FilterSpec == FilterInit /\ [][FilterNext]_vars

\* ----------------------------------------------------------------- claims

\* The criteria of the list whose column is no label of the row.
AbsentCriteria == {i \in 1..Len(filter_criteria) : ~InSeries(row_data, filter_criteria[i].column)}

\* C10 (fail-closed filter): with filtering enabled and a non-empty list of
\* criteria, a row for which some criterion names a column that is no label of
\* the row is rejected by matches_criteria, whatever the operation, the value
\* and the other criteria are.
FailClosedFilter ==
    (pc = "filter_done" /\ filter_enabled /\ AbsentCriteria # {}) => match_result = FALSE

\* C10 witness: a row rejected although the criterion before the one on the
\* absent column is satisfied.
FailClosedFilterWitness ==
    /\ pc = "filter_done"
    /\ filter_enabled
    /\ Len(filter_criteria) = 2
    /\ InSeries(row_data, filter_criteria[1].column)
    /\ CriterionOnCell(row_data, filter_criteria[1])
    /\ AbsentCriteria = {2}
    /\ match_result = FALSE

\* "Non-blank": not None, not the empty string, not whitespace only.
NonBlank(v) ==
    /\ v.t # "None"
    /\ v.t = "str" => \E i \in 1..Len(v.s) : v.s[i] # " "

\* The output fields whose name is a header of the sheet, and their column.
Fields == 1..Len(output_columns)
ColumnOf(f) == get_column_letter(sheet_init, output_columns[f].name)

\* C1 (skip invariant): for every data row and output field, if the cell of
\* the field held a non-blank value when the sheet was loaded (hence when the
\* row is read) and fetch_all is false for the field, then no gateway call
\* is made for that row and field, the cell is not assigned, and it keeps
\* its value.
SkipInvariant ==
    pc \notin {"filter", "filter_done"} =>
        \A r \in DataRows : \A f \in Fields :
            (/\ ColumnOf(f) # 0
             /\ NonBlank(sheet_init[r][ColumnOf(f)])
             /\ ~output_columns[f].fetch_all)
            => /\ <<r, output_columns[f].name>> \notin called
               /\ \A w \in written : ~(w[1] = r /\ w[2] = ColumnOf(f))
               /\ sheet[r][ColumnOf(f)] = sheet_init[r][ColumnOf(f)]

\* C1 witness: the run is over, a row had a populated cell under a field
\* without fetch_all, and the gateway was called for another field of that row.
SkipInvariantWitness ==
    /\ pc = "done"
    /\ \E r \in DataRows : \E f \in Fields : \E g \in Fields :
          /\ ColumnOf(f) # 0
          /\ NonBlank(sheet_init[r][ColumnOf(f)])
          /\ ~output_columns[f].fetch_all
          /\ <<r, output_columns[g].name>> \in called

\* C2 (retry bound): the gateway is called at most retry_attempts times for
\* one field of one row (calls counts the calls since the field was begun).
RetryBound == calls <= retry_attempts

\* C2 witness: all attempts of a field are used up; one of them ended in the
\* except clause.
RetryBoundWitness == pc = "exhausted" /\ calls = retry_attempts /\ delayed

\* C3 (inter-attempt delay), as claimed: every gateway call after the first
\* of a field is preceded by a retry_delay sleep since the call before it.
InterAttemptDelay == (pc = "attempt" /\ attempt > 1) => delayed

\* C4 (failure leaves the cell unmodified): when all attempts of a field have
\* failed, the sheet is as it was when the field was begun, and no cell of
\* the field was assigned.
FailureLeavesCell ==
    (pc = "exhausted" \/ (pc = "pace" /\ outcome = "exhausted")) =>
        /\ sheet = field_sheet
        /\ \A w \in written :
              ~(w[1] = idx /\ w[2] = get_column_letter(sheet, CurrentField.name))

\* C4 witness: a field of the second data row ran out of attempts after a
\* cell of the first data row was written.
FailureLeavesCellWitness ==
    /\ pc = "pace"
    /\ outcome = "exhausted"
    /\ idx = 3
    /\ \E w \in written : w[1] = 2
    /\ get_column_letter(sheet, CurrentField.name) # 0

\* C5 (exhaustion does not abort), as claimed: a run in which some field ran
\* out of attempts ends with every row visited (the loop over the rows ran to
\* its end, so every later field and row was attempted) and the save made.
ExhaustionDoesNotAbort ==
    (pc = "done" /\ exhausted_seen) => (idx > max_row /\ saves = 1)

\* The state part of C6: the save is attempted at most once and not before
\* the run ends; at the end it was attempted once, on the sheet as it is,
\* which holds every cell assignment made.
PersistState ==
    /\ saves <= 1
    /\ (pc \in {"row", "field", "attempt", "retry_sleep", "exhausted", "pace", "save"}
           => saves = 0)
    /\ pc = "done" =>
          /\ saves = 1
          /\ saved_sheet = sheet
          /\ \A w \in written : saved_sheet[w[1]][w[2]] = w[3]

\* C6 (persist exactly once): in every run of process_excel, ended cleanly or
\* by an exception, the save is attempted exactly once, on a sheet that holds
\* every cell assignment made, and nothing is assigned after the save.
PersistExactlyOnce ==
    /\ []PersistState
    /\ [][saves >= 1 => (sheet' = sheet /\ written' = written /\ saves' = saves)]_vars

\* C6 witness: the run ended by an exception in the second data row, after a
\* cell of the first data row was written, and the save was made.
PersistExactlyOnceWitness ==
    /\ pc = "done"
    /\ raised = "KeyError"
    /\ idx = 3
    /\ \E w \in written : w[1] = 2
    /\ saves = 1

\* C7 (write isolation): a step changes no cell but the cell of the row being
\* enriched under the field being attempted, and only when that attempt
\* succeeds in writing; header, other rows, other columns and cells written
\* for other fields stay as they are when a field fails.
WriteIsolation ==
    [][\A r \in DOMAIN sheet : \A c \in DOMAIN sheet[r] :
          sheet'[r][c] # sheet[r][c] =>
              /\ pc = "attempt"
              /\ r = idx
              /\ r \in DataRows
              /\ c = get_column_letter(sheet, CurrentField.name)
              /\ outcome' = "written"]_vars

\* C7 witness: a field of a row failed after another field of the same row
\* was written; the written cell holds the value written.
WriteIsolationWitness ==
    /\ pc = "pace"
    /\ outcome \in {"exhausted", "write_failed"}
    /\ \E w \in written : w[1] = idx /\ sheet[w[1]][w[2]] = w[3]

\* C8 (unresolved output column is fatal before processing), as claimed: when
\* an output field names no header of the sheet, no gateway call and no retry
\* or pacing delay happens in the run.
UnresolvedColumnFatal ==
    (pc \notin {"filter", "filter_done"} /\ \E f \in Fields : ColumnOf(f) = 0)
        => (called = {} /\ ~slept)

\* C9 (errors below the row level never escape the row), as claimed: no
\* exception raised while a field is enriched ends the loop over the rows; a
\* finished run has visited every row.
ErrorsStayInRow ==
    /\ raised # "KeyError"
    /\ pc = "done" => idx > max_row

\* The row r of the sheet as loaded matches the filter.
RowMatches(r) ==
    matches_criteria(filter_enabled, filter_criteria, Series(sheet_init[r], sheet_init[1]))

\* C11 (filtered rows are skipped entirely): a row on which the filter is
\* false gets no gateway call and no cell assignment and keeps its cells, and
\* the step that reads it goes straight on to the next row, with no retry or
\* pacing sleep.
FilteredRowsSkipped ==
    /\ [](pc \notin {"filter", "filter_done"} =>
            \A r \in DataRows :
                ~RowMatches(r) =>
                    /\ \A p \in called : p[1] # r
                    /\ \A w \in written : w[1] # r
                    /\ sheet[r] = sheet_init[r])
    /\ [][(pc = "row" /\ idx <= max_row
              /\ ~matches_criteria(filter_enabled, filter_criteria,
                                   Series(sheet[idx], sheet[1])))
            => /\ pc' = "row"
               /\ idx' = idx + 1
               /\ match_result' = FALSE
               /\ called' = called
               /\ written' = written
               /\ sheet' = sheet
               /\ slept' = slept
               /\ paces' = paces]_vars

\* C11 witness: the run is over, the first data row was rejected by the
\* filter and the gateway was called for the second.
FilteredRowsSkippedWitness ==
    /\ pc = "done"
    /\ ~RowMatches(2)
    /\ \E p \in called : p[1] = 3
    /\ idx > max_row

\* The filter is one enabled criterion on a column that is a label of the row.
SingleCriterion ==
    /\ pc = "filter_done"
    /\ filter_enabled
    /\ Len(filter_criteria) = 1
    /\ InSeries(row_data, filter_criteria[1].column)

\* C12 (membership-in-list operator), as claimed: a criterion with operation
\* "in" is satisfied exactly when its value is a list and the cell value of
\* the row is an element of it, for every cell value, falsy ones included.
MembershipInList ==
    (SingleCriterion /\ filter_criteria[1].operation = "in") =>
        (match_result <=>
            /\ filter_criteria[1].value.t = "list"
            /\ \E i \in 1..Len(filter_criteria[1].value.l) :
                  filter_criteria[1].value.l[i]
                      = SeriesAt(row_data, filter_criteria[1].column))

\* The field being attempted declares a schema with at least one property and
\* its output column is a header of the sheet; the last gateway call of the
\* field returned a structured object.
StructuredResult ==
    /\ pc \in {"attempt", "retry_sleep", "exhausted", "pace"}
    /\ calls >= 1
    /\ result.t = "dict"
    /\ CurrentField.schema # NoSchema
    /\ CurrentField.schema.properties # <<>>
    /\ get_column_letter(sheet, CurrentField.name) # 0

FirstProperty == Head(CurrentField.schema.properties)

\* The cell of the row and field being attempted.
CurrentCell == sheet[idx][get_column_letter(sheet, CurrentField.name)]

\* C13 (first declared property): when a field declares a schema and the
\* gateway returned an object that carries the first declared property, the
\* value written to the cell is the object's value for that property,
\* whatever other properties the object carries and in whatever order.
FirstDeclaredProperty ==
    (/\ StructuredResult
     /\ DictHas(result.d, FirstProperty)
     /\ CellAccepts(DictGet(result.d, FirstProperty, PyNone))) =>
        /\ pc = "pace"
        /\ outcome = "written"
        /\ CurrentCell = DictGet(result.d, FirstProperty, PyNone)
        /\ <<idx, get_column_letter(sheet, CurrentField.name),
             DictGet(result.d, FirstProperty, PyNone)>> \in written

\* C13 witness: the object carries another property before the first
\* declared one, and the value of the declared one is in the cell.
FirstDeclaredPropertyWitness ==
    /\ StructuredResult
    /\ outcome = "written"
    /\ Len(result.d) = 2
    /\ result.d[1][1] # FirstProperty
    /\ DictHas(result.d, FirstProperty)
    /\ CurrentCell = Word("low")

\* C14 (missing property yields the default, not a failure), as claimed:
\* when the gateway returned an object that lacks the first declared property
\* (an object with no properties included), the attempt is a success: the
\* retry loop is left, and "N/A" is in the cell.
MissingPropertyDefault ==
    (StructuredResult /\ ~DictHas(result.d, FirstProperty)) =>
        /\ pc = "pace"
        /\ outcome = "written"
        /\ CurrentCell = Word("N/A")

\* The part of C14 that holds of the code: an object with at least one
\* property that lacks the first declared one.
MissingPropertyDefaultNonEmpty ==
    (StructuredResult /\ ~DictHas(result.d, FirstProperty) /\ result.d # <<>>) =>
        /\ pc = "pace"
        /\ outcome = "written"
        /\ CurrentCell = Word("N/A")

\* Every output field is without fetch_all and names a header, and every data
\* row of the sheet as loaded holds a non-blank value under it.
FullyPopulated ==
    /\ pc \notin {"filter", "filter_done"}
    /\ \A f \in Fields :
          /\ ~output_columns[f].fetch_all
          /\ ColumnOf(f) # 0
          /\ \A r \in DataRows : NonBlank(sheet_init[r][ColumnOf(f)])

\* C15 (idempotence): a run on a fully populated sheet with fetch_all false
\* for every field makes no gateway call, no cell assignment and no pacing
\* sleep, raises nothing from a row, and leaves and saves the sheet as
\* loaded; the next run therefore starts from the same sheet and does the same.
Idempotence ==
    FullyPopulated =>
        /\ called = {}
        /\ written = {}
        /\ paces = 0
        /\ sheet = sheet_init
        /\ raised # "KeyError"
        /\ pc = "done" => (saved_sheet = sheet_init /\ idx > max_row)

\* C15 witness: such a run is over and every row went through process_row.
IdempotenceWitness ==
    /\ FullyPopulated
    /\ pc = "done"
    /\ ~filter_enabled
    /\ idx > max_row

\* One criterion is satisfied by the row: its column is a label of the row,
\* the cell is not blank, the operation is one of the table, the operands can
\* be compared and the operation's result is true.
Satisfies(rd, criterion) ==
    /\ InSeries(rd, criterion.column)
    /\ ~isna(SeriesAt(rd, criterion.column))
    /\ criterion.operation \in SupportedOperations
    /\ criterion.operation = "in" => criterion.value.t = "list"
    /\ ApplyOp(criterion.operation, SeriesAt(rd, criterion.column), criterion.value) = "True"

\* C16 (filter is the AND of its criteria): matches_criteria returns true
\* when filtering is disabled or the list of criteria is empty; otherwise it
\* returns true exactly when every criterion of the list is satisfied by the
\* row, and false when one of them is not (absent column, blank cell,
\* unsupported operation, incomparable operands, operation result false).
FilterIsConjunction ==
    pc = "filter_done" =>
        (match_result <=>
            \/ ~filter_enabled
            \/ filter_criteria = <<>>
            \/ \A i \in 1..Len(filter_criteria) : Satisfies(row_data, filter_criteria[i]))

\* C16 witness: a row rejected by the second of two criteria, on a column the
\* row has and with operands that compare, after the first one is satisfied.
FilterIsConjunctionWitness ==
    /\ pc = "filter_done"
    /\ filter_enabled
    /\ Len(filter_criteria) = 2
    /\ Satisfies(row_data, filter_criteria[1])
    /\ InSeries(row_data, filter_criteria[2].column)
    /\ filter_criteria[2].operation \in SupportedOperations \ {"in"}
    /\ ~isna(SeriesAt(row_data, filter_criteria[2].column))
    /\ ApplyOp(filter_criteria[2].operation, SeriesAt(row_data, filter_criteria[2].column),
               filter_criteria[2].value) = "False"
    /\ match_result = FALSE

\* Position a of the run lies before position b: an earlier row, or the same
\* row and an earlier output field of the declaration order.
Before(a, b) == a[1] < b[1] \/ (a[1] = b[1] /\ a[2] < b[2])

\* C17 (strictly sequential order): every gateway call is issued from the one
\* place of the retry loop, for the current (row, field); the first call of a
\* (row, field) comes after the last call of any other in ascending row
\* number and, within a row, in declaration order of the fields, and a
\* further call is for the same (row, field) as the call before it, so the
\* attempts of one (row, field) are over before those of the next begin.
\* Each call returns within the step that issues it: none is in flight when
\* the next is issued.
SequentialOrder ==
    [][calls' # calls /\ calls' # 0 =>
          /\ pc = "attempt"
          /\ calls' = calls + 1
          /\ called' = called \cup {<<idx, CurrentField.name>>}
          /\ idx' = idx /\ fld' = fld
          /\ last_call' = <<idx, fld>>
          /\ IF calls = 0 THEN Before(last_call, <<idx, fld>>)
                          ELSE last_call = <<idx, fld>>]_vars

\* C17 witness: the second field of the second data row is at its second
\* call or later, after calls for both rows.
SequentialOrderWitness ==
    /\ last_call = <<3, 2>>
    /\ calls >= 2
    /\ \E p \in called : p[1] = 2
    /\ <<3, output_columns[1].name>> \in called

\* The attempt sequence of the current field has made a call and its pacing
\* sleep is still to come.
PacingDue ==
    pc \in {"attempt", "retry_sleep", "exhausted", "pace"} /\ calls >= 1

\* C18 (pacing delay): the pacing sleeps taken so far are one for each
\* (row, field) with at least one gateway call, less the one of the field
\* whose sequence is running; so when a field makes its first call, and when
\* the run is over, every earlier called (row, field) has had exactly one.
\* The sleep is taken only from the end of an attempt sequence (success,
\* exhaustion or failed cell write) that made a call; no other step, the
\* skip of a field included, takes one.
PacingDelay ==
    /\ [](paces + (IF PacingDue THEN 1 ELSE 0) = Cardinality(called))
    /\ [][paces' # paces =>
             /\ pc = "pace" /\ calls >= 1
             /\ outcome \in {"written", "exhausted", "write_failed"}
             /\ paces' = paces + 1
             /\ called' = called /\ pc' = "field" /\ fld' = fld + 1]_vars
    /\ [][pc = "field" => paces' = paces]_vars

\* C18 witness: a finished run over two rows and two fields with one field
\* written, one exhausted and two skipped, and two pacing sleeps.
PacingDelayWitness ==
    /\ pc = "done" /\ raised = "none"
    /\ idx > max_row
    /\ ~filter_enabled
    /\ Len(output_columns) = 2
    /\ exhausted_seen
    /\ Cardinality(written) = 1
    /\ Cardinality(called) = 2
    /\ paces = 2

\* The attempt sequence of the current field has received a non-empty result
\* whose write raises: the output column is no cell of the header row, or the
\* cell does not accept the value.
WriteRaises ==
    /\ PacingDue
    /\ Truthy(result)
    /\ \/ get_column_letter(sheet, CurrentField.name) = 0
       \/ ~CellAccepts(ExtractValue(result, CurrentField.schema))

\* C19 (a cell-write failure ends the attempt sequence), as claimed: once the
\* write of a non-empty result has raised, the retry loop of the field is
\* left for the pacing sleep with the failure as its outcome, without a
\* retry delay and without a further call, whatever the position of the
\* field in the row.
WriteFailureEndsSequence ==
    WriteRaises => (pc = "pace" /\ outcome = "write_failed" /\ ~delayed)

\* C20 (re-run convergence), as claimed: every value written to an output
\* cell is non-blank, so that a later run without fetch_all skips the cell.
WrittenValuesNonBlank ==
    \A w \in written :
        /\ NonBlank(w[3])
        /\ ~ShouldFetch(FALSE, w[3])

====
